---- MODULE Spec2Model ----
(***************************************************************************)
(* Model of llm-platforms/claude/skills/scripts/example_operation.py.      *)
(*                                                                         *)
(* The file defines a processing function main(input_path, output_path)    *)
(* whose body is `pass`, and a module-level block guarded by               *)
(* `if __name__ == "__main__":` that checks len(sys.argv), prints a usage  *)
(* line to sys.stderr and calls sys.exit(1), or else calls                 *)
(* main(sys.argv[1], sys.argv[2]).                                         *)
(*                                                                         *)
(* Two executions of the file are modelled side by side (Runs), each with  *)
(* its own module name, argument vector, streams and exit status, so that  *)
(* statements comparing two executions can be written as state predicates. *)
(* Python's sys.argv is 0-based; TLA+ sequences are 1-based, so            *)
(* sys.argv[k] is argv[r][k + 1].                                          *)
(***************************************************************************)
EXTENDS Integers, Sequences, FiniteSets, TLC

\* ------------------------------------------------------------------ bounds

\* Largest number of arguments after the program name that is enumerated.
MaxArgs == 3

\* The two executions that are compared.
Runs == {1, 2}

\* Argument contents: the empty string and a file name. The file exists in
\* one initial filesystem and does not exist in the other.
Paths == {"", "a.txt"}

\* Program names (sys.argv[0]).
ProgNames == {"example_operation.py", "./op"}

\* Values of __name__: executed as the program, or imported as a library.
ModuleNames == {"__main__", "example_operation"}

\* Initial contents of the filesystem (the set of files that exist).
InitialFilesystems == {{}, {"a.txt"}}

\* ---------------------------------------------------------- program constants

\* `len(sys.argv) != 3`
RequiredArgvLen == 3

\* `sys.exit(1)`
UsageExitCode == 1

\* Exit status of an interpreter whose script ran to its end.
SuccessExitCode == 0

\* ------------------------------------------------------------------- state

VARIABLES
    name,        \* name[r]: the module's __name__
    argv,        \* argv[r]: sys.argv, program name first
    pc,          \* pc[r]: the statement about to execute
    stderr,      \* stderr[r]: text written to sys.stderr so far
    stdout,      \* stdout[r]: text written to sys.stdout so far
    fs,          \* the files that exist
    exit,        \* exit[r]: <<>> while running, <<code>> once the process ended
    mainCalls,   \* mainCalls[r]: the argument pairs main was called with, in order
    returned,    \* returned[r]: the values main returned, in order
    trace        \* trace[r]: the statements executed so far, in order

vars == <<name, argv, pc, stderr, stdout, fs, exit, mainCalls, returned, trace>>

\* All sequences over S of length lo..hi.
SeqsOf(S, lo, hi) == UNION {[1..n -> S] : n \in lo..hi}

\* Every sys.argv the model enumerates: a program name followed by 0..MaxArgs
\* arguments.
ArgVectors == {<<p>> \o a : p \in ProgNames, a \in SeqsOf(Paths, 0, MaxArgs)}

\* ------------------------------------------------------- pure parts of the code

\* A check that lets extra arguments through.
ArgcTooFew(av) == Len(av) < RequiredArgvLen

\* A check that also rejects an empty input path.
ArgcInvalidOrEmptyInput(av) ==
    Len(av) # RequiredArgvLen \/ (Len(av) = RequiredArgvLen /\ av[2] = "")

\* `len(sys.argv) != 3`
ArgcInvalid(av) == Len(av) # RequiredArgvLen

\* A module-level block with no guard.
AlwaysMainModule(n) == TRUE

\* `__name__ == "__main__"`
IsMainModule(n) == n = "__main__"

\* A usage line that echoes the last element of sys.argv.
UsageTextLastArg(av) == "Usage: " \o av[Len(av)] \o " <input> <output>"

\* f"Usage: {sys.argv[0]} <input> <output>"
UsageText(av) == "Usage: " \o av[1] \o " <input> <output>"

\* print(text, file=sys.stderr): the text followed by the default end="\n".
PrintLine(stream, text) == stream \o text \o "\n"

\* The shape of the state.
TypeOK ==
    /\ name \in [Runs -> ModuleNames]
    /\ argv \in [Runs -> ArgVectors]
    /\ pc \in [Runs -> {"load", "guard", "imported", "check", "usage", "sysexit",
                        "call", "main", "end", "exited"}]
    /\ \A r \in Runs : stderr[r] \in STRING /\ stdout[r] \in STRING
    /\ fs \subseteq Paths
    /\ \A r \in Runs : exit[r] \in SeqsOf({SuccessExitCode, UsageExitCode}, 0, 1)
    /\ \A r \in Runs : mainCalls[r] \in SeqsOf(Paths \X Paths, 0, 1)
    /\ \A r \in Runs : returned[r] \in SeqsOf({"None"}, 0, 1)
    /\ \A r \in Runs : Len(trace[r]) <= 6

\* ------------------------------------------------------------------- actions

Init ==
    /\ name \in [Runs -> ModuleNames]
    /\ argv \in [Runs -> ArgVectors]
    /\ pc = [r \in Runs |-> "load"]
    /\ stderr = [r \in Runs |-> ""]
    /\ stdout = [r \in Runs |-> ""]
    /\ fs \in InitialFilesystems
    /\ exit = [r \in Runs |-> <<>>]
    /\ mainCalls = [r \in Runs |-> <<>>]
    /\ returned = [r \in Runs |-> <<>>]
    /\ trace = [r \in Runs |-> <<>>]

\* Lines 11-24: `import sys`, `from pathlib import Path`, `def main`: the
\* module's definitions are executed; nothing is called.
LoadModule(r) ==
    /\ pc[r] = "load"
    /\ pc' = [pc EXCEPT ![r] = "guard"]
    /\ trace' = [trace EXCEPT ![r] = Append(@, "load")]
    /\ UNCHANGED <<name, argv, stderr, stdout, fs, exit, mainCalls, returned>>

\* Line 27: `if __name__ == "__main__":`. When the module is imported the block
\* is skipped and the module body ends: control returns to the importer.
Guard(r) ==
    /\ pc[r] = "guard"
    /\ pc' = [pc EXCEPT ![r] = IF IsMainModule(name[r]) THEN "check" ELSE "imported"]
    /\ trace' = [trace EXCEPT ![r] = Append(@, "guard")]
    /\ UNCHANGED <<name, argv, stderr, stdout, fs, exit, mainCalls, returned>>

\* Line 28: `if len(sys.argv) != 3:`.
CheckArgc(r) ==
    /\ pc[r] = "check"
    /\ pc' = [pc EXCEPT ![r] = IF ArgcInvalid(argv[r]) THEN "usage" ELSE "call"]
    /\ trace' = [trace EXCEPT ![r] = Append(@, "check")]
    /\ UNCHANGED <<name, argv, stderr, stdout, fs, exit, mainCalls, returned>>

\* Line 29: `print(f"Usage: {sys.argv[0]} <input> <output>", file=sys.stderr)`.
PrintUsage(r) ==
    /\ pc[r] = "usage"
    /\ stderr' = [stderr EXCEPT ![r] = PrintLine(@, UsageText(argv[r]))]
    /\ pc' = [pc EXCEPT ![r] = "sysexit"]
    /\ trace' = [trace EXCEPT ![r] = Append(@, "usage")]
    /\ UNCHANGED <<name, argv, stdout, fs, exit, mainCalls, returned>>

\* Line 30 left out: with more than two arguments control falls through to
\* line 32; with fewer, sys.argv[1] or sys.argv[2] raises IndexError and the
\* interpreter ends the process with status 1.
SysExitMissing(r) ==
    /\ pc[r] = "sysexit"
    /\ IF Len(argv[r]) > RequiredArgvLen
       THEN /\ pc' = [pc EXCEPT ![r] = "call"]
            /\ trace' = trace
            /\ exit' = exit
       ELSE /\ pc' = [pc EXCEPT ![r] = "exited"]
            /\ trace' = [trace EXCEPT ![r] = Append(@, "exit")]
            /\ exit' = [exit EXCEPT ![r] = <<UsageExitCode>>]
    /\ UNCHANGED <<name, argv, stderr, stdout, fs, mainCalls, returned>>

\* Line 30: `sys.exit(1)`: SystemExit(1) is raised at module level, nothing
\* catches it, and the interpreter ends the process with status 1.
SysExit(r) ==
    /\ pc[r] = "sysexit"
    /\ exit' = [exit EXCEPT ![r] = <<UsageExitCode>>]
    /\ pc' = [pc EXCEPT ![r] = "exited"]
    /\ trace' = [trace EXCEPT ![r] = Append(@, "exit")]
    /\ UNCHANGED <<name, argv, stderr, stdout, fs, mainCalls, returned>>

\* The call with its arguments exchanged.
CallMainSwapped(r) ==
    /\ pc[r] = "call"
    /\ mainCalls' = [mainCalls EXCEPT ![r] = Append(@, <<argv[r][3], argv[r][2]>>)]
    /\ pc' = [pc EXCEPT ![r] = "main"]
    /\ trace' = [trace EXCEPT ![r] = Append(@, "call")]
    /\ UNCHANGED <<name, argv, stderr, stdout, fs, exit, returned>>

\* Line 32: `main(sys.argv[1], sys.argv[2])`: the call is made.
CallMain(r) ==
    /\ pc[r] = "call"
    /\ mainCalls' = [mainCalls EXCEPT ![r] = Append(@, <<argv[r][2], argv[r][3]>>)]
    /\ pc' = [pc EXCEPT ![r] = "main"]
    /\ trace' = [trace EXCEPT ![r] = Append(@, "call")]
    /\ UNCHANGED <<name, argv, stderr, stdout, fs, exit, returned>>

\* A body that creates the output file.
MainWritesFile(r) ==
    /\ pc[r] = "main"
    /\ fs' = fs \cup {mainCalls[r][Len(mainCalls[r])][2]}
    /\ returned' = [returned EXCEPT ![r] = Append(@, "None")]
    /\ pc' = [pc EXCEPT ![r] = "end"]
    /\ trace' = [trace EXCEPT ![r] = Append(@, "main")]
    /\ UNCHANGED <<name, argv, stderr, stdout, exit, mainCalls>>

\* A body that prints its input path.
MainPrints(r) ==
    /\ pc[r] = "main"
    /\ stdout' = [stdout EXCEPT ![r] = PrintLine(@, mainCalls[r][Len(mainCalls[r])][1])]
    /\ returned' = [returned EXCEPT ![r] = Append(@, "None")]
    /\ pc' = [pc EXCEPT ![r] = "end"]
    /\ trace' = [trace EXCEPT ![r] = Append(@, "main")]
    /\ UNCHANGED <<name, argv, stderr, fs, exit, mainCalls>>

\* A body that never returns.
MainHangs(r) ==
    /\ pc[r] = "main"
    /\ UNCHANGED vars

\* Lines 15-24: the body of main is a docstring and `pass`; the function
\* returns None.
Main(r) ==
    /\ pc[r] = "main"
    /\ returned' = [returned EXCEPT ![r] = Append(@, "None")]
    /\ pc' = [pc EXCEPT ![r] = "end"]
    /\ trace' = [trace EXCEPT ![r] = Append(@, "main")]
    /\ UNCHANGED <<name, argv, stderr, stdout, fs, exit, mainCalls>>

\* After line 32 the script has no more statements: the interpreter ends the
\* process with status 0.
ScriptEnd(r) ==
    /\ pc[r] = "end"
    /\ exit' = [exit EXCEPT ![r] = <<SuccessExitCode>>]
    /\ pc' = [pc EXCEPT ![r] = "exited"]
    /\ trace' = [trace EXCEPT ![r] = Append(@, "exit")]
    /\ UNCHANGED <<name, argv, stderr, stdout, fs, mainCalls, returned>>

Step(r) ==
    \/ LoadModule(r)
    \/ Guard(r)
    \/ CheckArgc(r)
    \/ PrintUsage(r)
    \/ SysExit(r)
    \/ CallMain(r)
    \/ Main(r)
    \/ ScriptEnd(r)

Next == \E r \in Runs : Step(r)

Spec == Init /\ [][Next]_vars

\* Each execution is a single-threaded synchronous interpreter: a statement
\* that can execute does execute.
FairSpec == Spec /\ \A r \in Runs : WF_vars(Step(r))

\* ------------------------------------------------------------------ helpers

\* The number of arguments after the program name.
Argc(r) == Len(argv[r]) - 1

\* The file was executed as the program.
IsProgram(r) == name[r] = "__main__"

\* The process has ended.
Exited(r) == pc[r] = "exited"

\* The statement s occurs in the execution history of r.
Executed(r, s) == \E i \in 1..Len(trace[r]) : trace[r][i] = s

\* How many times the statement s occurs in the execution history of r.
TimesExecuted(r, s) == Cardinality({i \in 1..Len(trace[r]) : trace[r][i] = s})

\* ------------------------------------------------------------------- claims

\* C1: an execution of the program with an argument count other than 2 never
\* invokes main, and once the process has ended its exit code is 1 and a
\* usage message has been written to the error stream.
C1_WrongCountExitsOne ==
    \A r \in Runs :
        (IsProgram(r) /\ Argc(r) # 2) =>
            /\ mainCalls[r] = <<>>
            /\ ~Executed(r, "call")
            /\ Exited(r) => (exit[r] = <<1>> /\ stderr[r] # "")

\* Both executions ended on a usage error, one with too few arguments (none)
\* and one with too many (three).
C1_Witness ==
    /\ \A r \in Runs : IsProgram(r) /\ Exited(r) /\ exit[r] = <<1>>
    /\ Argc(1) = 0
    /\ Argc(2) = 3

\* C2: an execution of the program with exactly 2 arguments invokes main at
\* most once, with (sys.argv[1], sys.argv[2]) in that order, and once the
\* process has ended its exit code is 0 and main has been invoked exactly once.
C2_TwoArgsCallMainOnce ==
    \A r \in Runs :
        (IsProgram(r) /\ Argc(r) = 2) =>
            /\ Len(mainCalls[r]) <= 1
            /\ \A i \in 1..Len(mainCalls[r]) :
                   mainCalls[r][i] = <<argv[r][2], argv[r][3]>>
            /\ Exited(r) => (exit[r] = <<0>> /\ Len(mainCalls[r]) = 1)

\* An execution with two different arguments has ended after calling main.
C2_Witness ==
    \E r \in Runs :
        /\ IsProgram(r) /\ Argc(r) = 2 /\ Exited(r)
        /\ argv[r][2] # argv[r][3]
        /\ Len(mainCalls[r]) = 1

\* C3: no step writes to standard output or changes the filesystem, and a
\* step writes to the error stream only in an execution whose argument count
\* is not 2.
C3_OnlyUsageErrorWrites ==
    [][/\ stdout' = stdout
       /\ fs' = fs
       /\ \A r \in Runs : stderr'[r] # stderr[r] => (IsProgram(r) /\ Argc(r) # 2)]_vars

\* One execution with 2 arguments has ended with nothing on its error stream
\* while the other one, with 1 argument, has written to its error stream.
C3_Witness ==
    /\ IsProgram(1) /\ Argc(1) = 2 /\ Exited(1) /\ stderr[1] = ""
    /\ Len(returned[1]) = 1
    /\ IsProgram(2) /\ Argc(2) = 1 /\ Exited(2) /\ stderr[2] # ""

\* C4: the error stream is either empty or holds exactly the one line
\* "Usage: <sys.argv[0]> <input> <output>"; after a usage error it holds that
\* line; two executions started under the same program name write the same
\* text whatever their arguments.
C4_UsageMessageText ==
    /\ \A r \in Runs :
        /\ stderr[r] \in {"", "Usage: " \o argv[r][1] \o " <input> <output>\n"}
        /\ (Exited(r) /\ exit[r] = <<1>>) =>
               stderr[r] = "Usage: " \o argv[r][1] \o " <input> <output>\n"
    /\ \A r1, r2 \in Runs :
        (stderr[r1] # "" /\ stderr[r2] # "" /\ argv[r1][1] = argv[r2][1]) =>
            stderr[r1] = stderr[r2]

\* Two usage errors under the same program name with different arguments.
C4_Witness ==
    /\ \A r \in Runs : Exited(r) /\ exit[r] = <<1>> /\ stderr[r] # ""
    /\ argv[1][1] = argv[2][1]
    /\ Argc(1) = 1
    /\ Argc(2) = 3
    /\ argv[1][2] # argv[2][4]

\* C5: every execution of the program eventually ends, and a process that
\* has ended has exit code 0 or 1.
C5_TerminatesZeroOrOne ==
    /\ \A r \in Runs : IsProgram(r) => <>Exited(r)
    /\ [](\A r \in Runs : (Exited(r) <=> Len(exit[r]) = 1)
                          /\ (Exited(r) => exit[r][1] \in {0, 1}))

\* Both terminal outcomes have been reached.
C5_Witness ==
    /\ Exited(1) /\ exit[1] = <<0>>
    /\ Exited(2) /\ exit[2] = <<1>>

\* C6: the step that executes the body of main returns None to its caller
\* and changes nothing else: no stream, no file, no exit status, no argument.
C6_MainHasNoEffect ==
    [][\A r \in Runs :
         (pc[r] = "main" /\ pc'[r] # "main") =>
            /\ pc'[r] = "end"
            /\ returned'[r] = Append(returned[r], "None")
            /\ stderr' = stderr
            /\ stdout' = stdout
            /\ fs' = fs
            /\ exit' = exit
            /\ argv' = argv
            /\ name' = name
            /\ mainCalls' = mainCalls]_vars

\* main has returned from a call whose output path names a file that does
\* not exist.
C6_Witness ==
    \E r \in Runs :
        /\ returned[r] = <<"None">>
        /\ mainCalls[r] = << <<"", "a.txt">> >>
        /\ fs = {}

\* C7: the argument count is checked at most once, and exactly once before
\* any call of main; after the usage message the only step is the exit, with
\* no call of main; a process that has ended executes nothing more.
C7_ValidateOnceThenCallOrExit ==
    \A r \in Runs :
        /\ TimesExecuted(r, "check") <= 1
        /\ \A i \in 1..Len(trace[r]) :
               trace[r][i] = "call" => \E j \in 1..(i - 1) : trace[r][j] = "check"
        /\ Executed(r, "usage") =>
               /\ ~Executed(r, "call")
               /\ pc[r] \in {"sysexit", "exited"}
               /\ trace[r] \in {<<"load", "guard", "check", "usage">>,
                                <<"load", "guard", "check", "usage", "exit">>}
        /\ Exited(r) =>
               /\ TimesExecuted(r, "check") = 1
               /\ TimesExecuted(r, "exit") = 1
               /\ trace[r][Len(trace[r])] = "exit"

\* A usage error with three arguments has run to its end.
C7_Witness ==
    \E r \in Runs :
        /\ Argc(r) = 3
        /\ trace[r] = <<"load", "guard", "check", "usage", "exit">>

\* C8: two executions of the program with the same argument count end with
\* the same exit code and the same number of calls of main, and at every
\* point have executed the same statements or one a prefix of the other's.
C8_OutcomeDependsOnCountOnly ==
    \A r1, r2 \in Runs :
        (IsProgram(r1) /\ IsProgram(r2) /\ Argc(r1) = Argc(r2)) =>
            /\ (Exited(r1) /\ Exited(r2)) =>
                   /\ exit[r1] = exit[r2]
                   /\ Len(mainCalls[r1]) = Len(mainCalls[r2])
            /\ Len(trace[r1]) <= Len(trace[r2]) =>
                   trace[r1] = SubSeq(trace[r2], 1, Len(trace[r1]))

\* Two ended executions with two arguments each: one with two empty strings,
\* the other with the same file, which does not exist, as input and output.
C8_Witness ==
    /\ \A r \in Runs : IsProgram(r) /\ Exited(r)
    /\ argv[1] = <<"./op", "", "">>
    /\ argv[2] = <<"./op", "a.txt", "a.txt">>
    /\ fs = {}

\* C9: when the module is imported, loading it checks no argument count,
\* writes nothing to the error stream, does not end the process and does not
\* call main.
C9_ImportDoesNothing ==
    \A r \in Runs :
        ~IsProgram(r) =>
            /\ ~Executed(r, "check")
            /\ stderr[r] = ""
            /\ exit[r] = <<>>
            /\ ~Exited(r)
            /\ mainCalls[r] = <<>>
            /\ pc[r] \in {"load", "guard", "imported"}

\* The module has been imported twice, once under a valid and once under an
\* invalid argument list.
C9_Witness ==
    /\ \A r \in Runs : ~IsProgram(r) /\ pc[r] = "imported"
    /\ Argc(1) = 2
    /\ Argc(2) = 0

====
